---- MODULE Spec2Model ----
(***************************************************************************)
(* Model of the Tarot Telegram bot: the deck (tarot_deck.py), the storage  *)
(* (database.py) and the command handlers (tarot_bot.py).                  *)
(*                                                                         *)
(* Python values are modelled as records tagged with a field py:           *)
(*   a TarotCard instance  [py |-> "TarotCard", name, upright, ...]        *)
(*   a (card, is_reversed) tuple  [py |-> "tuple", card, is_reversed]      *)
(*   a dict  [py |-> "dict", items |-> << <<key, value>>, ... >>]          *)
(*           (items in insertion order, as a Python dict keeps them)       *)
(* The Russian texts of the source are given in English: the strings of a  *)
(* module are ASCII.                                                       *)
(***************************************************************************)
EXTENDS Integers, Sequences, FiniteSets, TLC

VARIABLES
    cards,        \* TarotDeck.cards
    is_running,   \* TarotBot.is_running
    users,        \* table users: user_id -> row, or None
    readings,     \* table readings: the rows in insertion order
    req,          \* the invocation of handle_quick_spread that has just run
    load_call,    \* the catalog file on disk and the calls of load_deck
    draw_call,    \* a direct call of TarotDeck.draw_cards
    fmt_call,     \* a direct call of TarotBot.format_spread_response
    rt,           \* the serializer pipeline: to_dict, save_reading, get_user_readings
    loader,       \* a thread inside load_deck on the live deck
    callers,      \* the threads inside TarotBot.start or TarotBot.stop
    polling       \* the threads start() has spawned on _run_polling

vars == <<cards, is_running, users, readings, req, load_call, draw_call, fmt_call, rt,
          loader, callers, polling>>

(***************************************************************************)
(* Bounds of the model.                                                    *)
(***************************************************************************)
\* the largest number of records in a catalog file
MaxFileCards == 3
\* the largest n of a direct draw_cards(n) call
MaxDraw == 3
\* the places of the deck the random source picks from: the first MaxPlace
\* (and the first n, for a draw of n > MaxPlace cards)
MaxPlace == 4
\* the largest number of rows in the readings table
MaxReadings == 2

UserIds == {1, 2}

Range(s) == {s[i] : i \in DOMAIN s}

(***************************************************************************)
(* tarot_deck.py: CardType and TarotCard                                   *)
(***************************************************************************)
\* the members of the enum CardType
CardTypeMembers == {"MAJOR", "CUPS", "SWORDS", "WANDS", "PENTACLES"}

\* CardType.<member>.value
CardTypeValue(member) ==
    CASE member = "MAJOR"     -> "Major Arcana"
      [] member = "CUPS"      -> "Cups"
      [] member = "SWORDS"    -> "Swords"
      [] member = "WANDS"     -> "Wands"
      [] member = "PENTACLES" -> "Pentacles"

\* CardType(value): the member with that value, or ValueError
CardTypeFromValue(value) ==
    IF \E m \in CardTypeMembers : CardTypeValue(m) = value
    THEN CHOOSE m \in CardTypeMembers : CardTypeValue(m) = value
    ELSE "ValueError"

TarotCard(name, upright, reversed, card_type) ==
    [py |-> "TarotCard", name |-> name, upright |-> upright,
     reversed |-> reversed, card_type |-> card_type]

\* the meaning texts longer than max_length = 100 characters
LongTexts == {"A long upright text of more than one hundred characters"}

\* meaning[:100] + "..."
Truncated(meaning) ==
    CASE meaning = "A long upright text of more than one hundred characters"
           -> "A long upright text of ..."
      [] OTHER -> meaning

get_meaning(card, is_reversed) ==
    IF is_reversed THEN card.reversed ELSE card.upright

get_short_meaning(card, is_reversed) ==
    LET meaning == get_meaning(card, is_reversed)
    IN  IF meaning \in LongTexts THEN Truncated(meaning) ELSE meaning

PyDict(items) == [py |-> "dict", items |-> items]

PyTuple(card, is_reversed) ==
    [py |-> "tuple", card |-> card, is_reversed |-> is_reversed]

\* a mutant of to_dict: the orientation is stored the wrong way round
to_dict_Inverted(card, is_reversed) ==
    PyDict(<< <<"name", card.name>>,
              <<"type", CardTypeValue(card.card_type)>>,
              <<"position", IF is_reversed THEN "upright" ELSE "reversed">>,
              <<"meaning", get_meaning(card, is_reversed)>>,
              <<"short_meaning", get_short_meaning(card, is_reversed)>> >>)

to_dict(card, is_reversed) ==
    PyDict(<< <<"name", card.name>>,
              <<"type", CardTypeValue(card.card_type)>>,
              <<"position", IF is_reversed THEN "reversed" ELSE "upright">>,
              <<"meaning", get_meaning(card, is_reversed)>>,
              <<"short_meaning", get_short_meaning(card, is_reversed)>> >>)

(***************************************************************************)
(* tarot_deck.py: the built-in deck                                        *)
(***************************************************************************)
major_arcana ==
    << TarotCard("0. The Fool", "Beginning, freedom, innocence", "Recklessness, risk", "MAJOR"),
       TarotCard("I. The Magician", "Will, mastery, concentration", "Manipulation, weakness", "MAJOR"),
       TarotCard("II. The High Priestess", "Intuition, secret knowledge", "Hidden motives", "MAJOR"),
       TarotCard("III. The Empress", "Abundance, creativity", "Dependence", "MAJOR"),
       TarotCard("IV. The Emperor", "Power, structure", "Tyranny", "MAJOR") >>

cups_cards ==
    << TarotCard("Ace of Cups", "New feelings, love", "Emotional emptiness", "CUPS"),
       TarotCard("Two of Cups", "Unity, harmony", "Break-up", "CUPS") >>

swords_cards ==
    << TarotCard("Ace of Swords", "Clarity, truth", "Confusion", "SWORDS"),
       TarotCard("Two of Swords", "Choice, balance", "Uncertainty", "SWORDS") >>

wands_cards ==
    << TarotCard("Ace of Wands", "Inspiration, energy", "Delays", "WANDS") >>

\* the deck _create_basic_deck builds from its lists
BasicDeck == major_arcana \o cups_cards \o swords_cards \o wands_cards

\* _create_basic_deck: the built-in catalog becomes the deck's whole contents
create_basic_deck(self_cards) == BasicDeck

(***************************************************************************)
(* The catalog file: a JSON list of records                                *)
(***************************************************************************)
RequiredFields == {"name", "upright", "reversed", "card_type"}
OptionalFields == {"number", "keywords", "element", "astro"}

FileRecord(i) ==
    CASE i = 1 -> [name |-> "Three of Cups", upright |-> "Celebration",
                   reversed |-> "Excess", card_type |-> "Cups"]
      [] i = 2 -> [name |-> "Three of Swords",
                   upright |-> "A long upright text of more than one hundred characters",
                   reversed |-> "Recovery", card_type |-> "Swords"]
      [] i = 3 -> [name |-> "Three of Wands", upright |-> "Expansion",
                   reversed |-> "Obstacles", card_type |-> "Wands"]
      [] i = 4 -> [name |-> "Ace of Pentacles", upright |-> "Prosperity",
                   reversed |-> "Lost chance", card_type |-> "Pentacles"]
      [] OTHER -> [name |-> "V. The Hierophant", upright |-> "Tradition",
                   reversed |-> "Rebellion", card_type |-> "Major Arcana"]

\* the ways one record of the file can be malformed
BadKinds == {"unknown_card_type", "no_card_type", "no_upright"}

BadRecord(i, kind) ==
    LET r == FileRecord(i)
    IN  CASE kind = "unknown_card_type" -> [r EXCEPT !.card_type = "Coins"]
          [] kind = "no_card_type" ->
                [name |-> r.name, upright |-> r.upright, reversed |-> r.reversed]
          [] kind = "no_upright" ->
                [name |-> r.name, reversed |-> r.reversed, card_type |-> r.card_type]

NoFile == [exists |-> FALSE, json_ok |-> FALSE, records |-> <<>>]

\* a file whose records are all well formed
GoodFile(k) ==
    [exists |-> TRUE, json_ok |-> TRUE, records |-> [i \in 1..k |-> FileRecord(i)]]

\* a file of k records whose record at position bad is malformed
BadFile(k, bad, kind) ==
    [exists |-> TRUE, json_ok |-> TRUE,
     records |-> [i \in 1..k |-> IF i = bad THEN BadRecord(i, kind) ELSE FileRecord(i)]]

\* a file that is not JSON at all
NotJsonFile == [exists |-> TRUE, json_ok |-> FALSE, records |-> <<>>]

CatalogFiles ==
    {NoFile, NotJsonFile}
      \cup {GoodFile(k) : k \in 0..MaxFileCards}
      \cup {BadFile(k, bad, kind) :
              k \in 1..MaxFileCards, bad \in 1..MaxFileCards, kind \in BadKinds}

\* the result of a call: the value returned, or the exception raised
Ok(v) == [raised |-> "none", value |-> v]
Raise(kind) == [raised |-> kind, value |-> <<>>]
IsException(r) == r.raised # "none"

\* lines 99-100 for one record: the card, or the exception raised
ParseRecord(card_data) ==
    IF "card_type" \notin DOMAIN card_data THEN Raise("KeyError")
    ELSE IF CardTypeFromValue(card_data.card_type) = "ValueError" THEN Raise("ValueError")
    ELSE IF ~(RequiredFields \subseteq DOMAIN card_data) THEN Raise("TypeError")
    ELSE IF ~(DOMAIN card_data \subseteq RequiredFields \cup OptionalFields)
         THEN Raise("TypeError")
    ELSE Ok(TarotCard(card_data.name, card_data.upright, card_data.reversed,
                      CardTypeFromValue(card_data.card_type)))

\* the for loop of load_deck from record i on: the cards appended so far and
\* whether the loop ran to its end
RECURSIVE LoadLoop(_, _, _)
LoadLoop(self_cards, cards_data, i) ==
    IF i > Len(cards_data) THEN [cards |-> self_cards, ok |-> TRUE]
    ELSE LET c == ParseRecord(cards_data[i])
         IN  IF IsException(c) THEN [cards |-> self_cards, ok |-> FALSE]
             ELSE LoadLoop(Append(self_cards, c.value), cards_data, i + 1)

\* a mutant of load_deck: after a failed load the deck is left as it is
load_deck_NoFallback(self_cards, file) ==
    IF file.exists /\ file.json_ok
    THEN LoadLoop(self_cards, file.records, 1).cards
    ELSE create_basic_deck(self_cards)

\* TarotDeck.load_deck: self.cards after the call
load_deck(self_cards, file) ==
    IF file.exists
    THEN IF ~file.json_ok
         THEN create_basic_deck(self_cards)
         ELSE LET r == LoadLoop(self_cards, file.records, 1)
              IN  IF r.ok THEN r.cards ELSE create_basic_deck(r.cards)
    ELSE create_basic_deck(self_cards)

\* TarotDeck.__init__: self.cards = [] and load_deck()
TarotDeck(file) == load_deck(<<>>, file)

(***************************************************************************)
(* tarot_deck.py: TarotDeck.draw_cards                                     *)
(***************************************************************************)
CardNames(self_cards) == {self_cards[i].name : i \in DOMAIN self_cards}

\* what the random source can give a draw of n cards: the places of n
\* different cards of the deck, in any order
Samples(self_cards, n) ==
    LET places == 1..(IF Len(self_cards) < MaxPlace THEN Len(self_cards)
                      ELSE IF n > MaxPlace THEN n ELSE MaxPlace)
    IN  IF n > Len(self_cards) THEN {<<>>}
        ELSE {idx \in [1..n -> places] :
                \A i, j \in 1..n : i # j => idx[i] # idx[j]}

\* and an orientation for each of the n cards
Orientations(n) == [1..n -> BOOLEAN]

\* a mutant of draw_cards: each card is picked on its own, so that a card
\* can come twice (the place of the first card is used again for the last)
draw_cards_WithReplacement(self_cards, n, idx, rev) ==
    IF n > Cardinality(CardNames(self_cards)) THEN Raise("InsufficientCardsError")
    ELSE Ok([i \in 1..n |->
               PyTuple(self_cards[IF i = n THEN idx[1] ELSE idx[i]], rev[i])])

\* TarotDeck.draw_cards(n): n (card, is_reversed) tuples, sampled without
\* replacement; self.cards is left as it is
draw_cards(self_cards, n, idx, rev) ==
    IF n > Cardinality(CardNames(self_cards)) THEN Raise("InsufficientCardsError")
    ELSE Ok([i \in 1..n |-> PyTuple(self_cards[idx[i]], rev[i])])

(***************************************************************************)
(* tarot_spreads.py: the registry of spreads                               *)
(***************************************************************************)
\* the number of cards of a topic spread (love, work, money, health)
TopicCards == 3

None == [py |-> "None"]

SpreadInfo(name, type, n, positions) ==
    [py |-> "dict", name |-> name, type |-> type, cards |-> n,
     description |-> name, has_positions |-> TRUE, positions |-> positions]

\* the spread identifiers the command handlers of setup_handlers pass on
HandlerSpreadTypes ==
    {"quick_card", "daily", "three_cards", "love_spread", "work_spread",
     "money_spread", "health_spread"}

\* TarotSpreads.get_spread_info: the spread's definition, or None
get_spread_info(spread_type) ==
    CASE spread_type = "quick_card" ->
            SpreadInfo("Quick card", "single", 1, <<"Your card">>)
      [] spread_type = "daily" ->
            SpreadInfo("Card of the day", "daily", 1, <<"Card of the day">>)
      [] spread_type = "three_cards" ->
            SpreadInfo("Three cards", "three_cards", 3, <<"Past", "Present", "Future">>)
      [] spread_type = "love_spread" ->
            SpreadInfo("Love", "love", TopicCards, <<"You", "Partner", "Relationship">>)
      [] spread_type = "work_spread" ->
            SpreadInfo("Work", "work", TopicCards, <<"Situation", "Obstacle", "Advice">>)
      [] spread_type = "money_spread" ->
            SpreadInfo("Money", "money", TopicCards, <<"Income", "Spending", "Advice">>)
      [] spread_type = "health_spread" ->
            SpreadInfo("Health", "health", TopicCards, <<"Body", "Mind", "Advice">>)
      [] OTHER -> None

(***************************************************************************)
(* tarot_bot.py: TarotBot.format_spread_response                           *)
(***************************************************************************)
\* f"Card {i}" (the source's word is the Russian for card)
CardLabel(i) == "Card " \o ToString(i)

Min(a, b) == IF a < b THEN a ELSE b

\* one card of the response: its number and position label when the template
\* prints them, and the text printed for the card
Entry(labelled, i, position, t, style) ==
    [labelled |-> labelled, i |-> i, position |-> position,
     name |-> t.card.name, is_reversed |-> t.is_reversed, style |-> style]

\* spread_info.get('positions', default)
GetPositions(spread_info, default) ==
    IF spread_info.has_positions THEN spread_info.positions ELSE default

\* the branch for type 'three_cards': zip(cards_data, positions)
ThreeCardsEntries(spread_info, cards_data) ==
    LET positions == GetPositions(spread_info, <<"Past", "Present", "Future">>)
    IN  [i \in 1..Min(Len(cards_data), Len(positions)) |->
            Entry(TRUE, i, positions[i], cards_data[i], "description")]

\* the branch for every other type
ListEntries(spread_info, cards_data) ==
    LET positions == GetPositions(spread_info, <<>>)
    IN  [i \in 1..Len(cards_data) |->
            Entry(TRUE, i,
                  IF i <= Len(positions) THEN positions[i] ELSE CardLabel(i),
                  cards_data[i], "short_description")]

\* format_spread_response: the response, as the cards it prints
format_spread_response(spread_info, cards_data) ==
    IF spread_info.type = "daily"
    THEN IF Len(cards_data) = 0 THEN Raise("IndexError")
         ELSE Ok([title |-> spread_info.name,
                  entries |-> <<Entry(FALSE, 0, "", cards_data[1], "description")>>])
    ELSE IF spread_info.type = "three_cards"
    THEN Ok([title |-> spread_info.name,
             entries |-> ThreeCardsEntries(spread_info, cards_data)])
    ELSE Ok([title |-> spread_info.name,
             entries |-> ListEntries(spread_info, cards_data)])

(***************************************************************************)
(* json.dumps and json.loads, on the values save_reading is given          *)
(***************************************************************************)
\* whether json.dumps can encode the value: a dict of strings, not an object
RECURSIVE JsonSerializable(_)
JsonSerializable(v) ==
    CASE v.py = "dict" -> TRUE
      [] v.py = "tuple" -> JsonSerializable(v.card)
      [] OTHER -> FALSE

RECURSIVE DictTokens(_, _)
DictTokens(items, i) ==
    IF i > Len(items) THEN <<"}">>
    ELSE <<items[i][1], items[i][2]>> \o DictTokens(items, i + 1)

RECURSIVE ListTokens(_, _)
ListTokens(list, i) ==
    IF i > Len(list) THEN <<"]">>
    ELSE <<"{">> \o DictTokens(list[i].items, 1) \o ListTokens(list, i + 1)

\* json.dumps(list): the text, as its tokens, or TypeError
json_dumps(list) ==
    IF \A i \in DOMAIN list : JsonSerializable(list[i])
    THEN Ok(<<"[">> \o ListTokens(list, 1))
    ELSE Raise("TypeError")

\* the items of the dict that starts at token i, and the token after its "}"
RECURSIVE ParseDict(_, _, _)
ParseDict(tokens, i, items) ==
    IF tokens[i] = "}" THEN [items |-> items, next |-> i + 1]
    ELSE ParseDict(tokens, i + 2, Append(items, <<tokens[i], tokens[i + 1]>>))

RECURSIVE ParseList(_, _, _)
ParseList(tokens, i, list) ==
    IF tokens[i] = "]" THEN list
    ELSE LET d == ParseDict(tokens, i + 1, <<>>)
         IN  ParseList(tokens, d.next, Append(list, PyDict(d.items)))

\* json.loads(text)
json_loads(tokens) == ParseList(tokens, 2, <<>>)

(***************************************************************************)
(* database.py: the tables users and readings                              *)
(***************************************************************************)
UserRow(cards_drawn, readings_count) ==
    [py |-> "row", cards_drawn |-> cards_drawn, readings_count |-> readings_count]

\* Database.add_user: INSERT OR IGNORE INTO users
add_user(users_, user_id) ==
    IF users_[user_id].py = "None"
    THEN [users_ EXCEPT ![user_id] = UserRow(0, 0)]
    ELSE users_

\* Database.update_user_activity: UPDATE users ... WHERE user_id = ?
update_user_activity(users_, user_id) ==
    IF users_[user_id].py = "None" THEN users_
    ELSE [users_ EXCEPT ![user_id] =
             UserRow(@.cards_drawn + 1, @.readings_count + 1)]

\* Database.save_reading: the table after the call and the row id returned,
\* or the exception json.dumps raises before the INSERT is executed
save_reading(rows, user_id, spread_type, cards_arg) ==
    LET text == json_dumps(cards_arg)
    IN  IF IsException(text)
        THEN [raised |-> text.raised, value |-> 0, readings |-> rows]
        ELSE [raised |-> "none", value |-> Len(rows) + 1,
              readings |-> Append(rows, [id |-> Len(rows) + 1,
                                         user_id |-> user_id,
                                         spread_type |-> spread_type,
                                         cards |-> text.value])]

\* the default of get_user_readings' limit
DefaultLimit == 10

\* the rows SELECT ... WHERE user_id = ? finds, as places in the table
RowsOf(rows, user_id) == {i \in DOMAIN rows : rows[i].user_id = user_id}

\* the orders ORDER BY created_at DESC LIMIT ? can return them in.
\* created_at is CURRENT_TIMESTAMP, in seconds: rows written in the same
\* second come in any order, so that every order of the rows can come
SelectOrders(rows, user_id, limit) ==
    LET found == RowsOf(rows, user_id)
        k     == Min(limit, Cardinality(found))
    IN  {o \in [1..k -> found] : \A i, j \in 1..k : i # j => o[i] # o[j]}

\* Database.get_user_readings, for one of those orders: each row with its
\* cards decoded by json.loads
get_user_readings(rows, order) ==
    [i \in DOMAIN order |-> [rows[order[i]] EXCEPT !.cards = json_loads(@)]]

(***************************************************************************)
(* tarot_bot.py: TarotBot.handle_quick_spread                              *)
(***************************************************************************)
\* a message handed to bot.send_message
NotFoundMessage == [text |-> "spread_not_found", body |-> None]
ResponseMessage(response) == [text |-> "reading", body |-> response]

\* a mutant of LookupSpread: an unknown spread falls back to the daily one
LookupSpread_Default(spread_type) ==
    IF get_spread_info(spread_type).py = "None"
    THEN get_spread_info("daily")
    ELSE get_spread_info(spread_type)

\* line 173: spread_info = self.spreads.get_spread_info(spread_type)
LookupSpread(spread_type) == get_spread_info(spread_type)

\* the number of cards the handler asks the deck for
SampleSize(spread_type) ==
    LET spread_info == LookupSpread(spread_type)
    IN  IF spread_info.py = "None" THEN 0 ELSE spread_info.cards

\* a mutant of DrawForSpread: one card fewer than the spread has
DrawForSpread_OneShort(self_cards, spread_info, idx, rev) ==
    draw_cards(self_cards, spread_info.cards - 1, idx, rev)

\* a mutant of DrawForSpread: a deck too small gives as many cards as it has
DrawForSpread_Truncating(self_cards, spread_info, idx, rev) ==
    IF spread_info.cards > Len(self_cards)
    THEN Ok([i \in 1..Len(self_cards) |-> PyTuple(self_cards[i], FALSE)])
    ELSE draw_cards(self_cards, spread_info.cards, idx, rev)

\* line 180: cards_data = self.deck.draw_cards(spread_info['cards'])
DrawForSpread(self_cards, spread_info, idx, rev) ==
    draw_cards(self_cards, spread_info.cards, idx, rev)

\* line 186: what the handler hands save_reading as cards
SaveArgument(cards_data) == cards_data

\* the invocation before its first call, with the tables as it finds them
NewRequest(users_, rows, user_id, spread_type) ==
    [user_id |-> user_id, spread_type |-> spread_type, spread_info |-> None,
     calls |-> <<>>, cards_data |-> <<>>, drawn |-> FALSE, save_arg |-> <<>>,
     sent |-> <<>>, outcome |-> "none",
     users_before |-> users_, readings_before |-> rows,
     users |-> users_, readings |-> rows]

\* a mutant of handle_quick_spread: the user's activity is counted first
handle_quick_spread_ActivityFirst(self_cards, users_, rows, user_id, spread_type, idx, rev) ==
    LET r0 == NewRequest(users_, rows, user_id, spread_type)
        spread_info == LookupSpread(spread_type)
        r1 == [r0 EXCEPT !.spread_info = spread_info,
                         !.users = update_user_activity(users_, user_id),
                         !.calls = <<"update_user_activity", "get_spread_info">>]
    IN  IF spread_info.py = "None"
        THEN [r1 EXCEPT !.calls = @ \o <<"send_message">>,
                        !.sent = <<NotFoundMessage>>,
                        !.outcome = "spread_not_found"]
        ELSE LET d == DrawForSpread(self_cards, spread_info, idx, rev)
             IN  [r1 EXCEPT !.calls = @ \o <<"draw_cards">>,
                            !.outcome = IF IsException(d) THEN d.raised ELSE "TypeError",
                            !.drawn = ~IsException(d),
                            !.cards_data = d.value]

\* handle_quick_spread: the calls it makes in their order, what it hands
\* them, the tables after it, the messages it sends and how it ends (an
\* exception leaves the handler at the call that raises it)
handle_quick_spread(self_cards, users_, rows, user_id, spread_type, idx, rev) ==
    LET r0 == NewRequest(users_, rows, user_id, spread_type)
        spread_info == LookupSpread(spread_type)
        r1 == [r0 EXCEPT !.spread_info = spread_info,
                         !.calls = <<"get_spread_info">>]
    IN  IF spread_info.py = "None"
        THEN [r1 EXCEPT !.calls = @ \o <<"send_message">>,
                        !.sent = <<NotFoundMessage>>,
                        !.outcome = "spread_not_found"]
        ELSE
        LET d  == DrawForSpread(self_cards, spread_info, idx, rev)
            r2 == [r1 EXCEPT !.calls = @ \o <<"draw_cards">>]
        IN  IF IsException(d) THEN [r2 EXCEPT !.outcome = d.raised]
            ELSE
            LET f  == format_spread_response(spread_info, d.value)
                r3 == [r2 EXCEPT !.calls = @ \o <<"format_spread_response">>,
                                 !.drawn = TRUE,
                                 !.cards_data = d.value]
            IN  IF IsException(f) THEN [r3 EXCEPT !.outcome = f.raised]
                ELSE
                LET s  == save_reading(rows, user_id, spread_type,
                                       SaveArgument(d.value))
                    r4 == [r3 EXCEPT !.calls = @ \o <<"save_reading">>,
                                     !.save_arg = SaveArgument(d.value)]
                IN  IF IsException(s) THEN [r4 EXCEPT !.outcome = s.raised]
                    ELSE [r4 EXCEPT
                            !.calls = @ \o <<"update_user_activity", "send_message">>,
                            !.readings = s.readings,
                            !.users = update_user_activity(users_, user_id),
                            !.sent = <<ResponseMessage(f.value)>>,
                            !.outcome = "ok"]

(***************************************************************************)
(* The bot: TarotBot.__init__, start, stop and the command handlers        *)
(***************************************************************************)
NoUsers == [u \in UserIds |-> None]

IdleRequest == NewRequest(NoUsers, <<>>, 0, "")
IdleLoad    == [file |-> NoFile, loaded |-> NoFile, loads |-> 0]
IdleDraw    == [n |-> 0, called |-> FALSE, result |-> Ok(<<>>), cards_after |-> <<>>]
IdleFormat  == [spread_info |-> None, cards_data |-> <<>>, called |-> FALSE,
                result |-> Ok(<<>>)]
IdlePipeline == [stage |-> "idle", cards_data |-> <<>>, storable |-> <<>>,
                 fetched |-> <<>>, fetched_for |-> 0]

\* no thread is inside load_deck
IdleLoader == [pc |-> "idle", file |-> NoFile, cards_data |-> <<>>, i |-> 0,
               old |-> <<>>, reloads |-> 0]

\* the thread that calls start() and stop(), one call after the other
CallerIds == {1}

\* a caller outside start() and stop()
IdleCaller == [op |-> "none", pc |-> "idle", saw_running |-> FALSE,
               spawned |-> FALSE, result |-> "none"]

NoCallers == [c \in CallerIds |-> IdleCaller]

\* the spread identifiers a request can carry: the handlers' and one that
\* is not registered
RequestSpreadTypes == HandlerSpreadTypes \cup {"nonexistent_spread_id"}

\* the decks TarotDeck() can give, over the catalog files
LoadedDecks == {TarotDeck(file) : file \in CatalogFiles}

\* TarotBot.__init__: the deck is loaded, the registry built, the tables
\* created and is_running set to False; nothing else is checked
Init ==
    /\ cards \in LoadedDecks
    /\ is_running = FALSE
    /\ users = NoUsers
    /\ readings = <<>>
    /\ req = IdleRequest
    /\ load_call = IdleLoad
    /\ draw_call = IdleDraw
    /\ fmt_call = IdleFormat
    /\ rt = IdlePipeline
    /\ loader = IdleLoader
    /\ callers = NoCallers
    /\ polling = <<>>

\* TarotBot.start: False when already running; get_me() may fail
Start ==
    /\ req.outcome = "none"
    /\ \E get_me_ok \in BOOLEAN :
          is_running' = IF is_running THEN TRUE ELSE get_me_ok
    /\ UNCHANGED <<cards, users, readings, req, load_call, draw_call, fmt_call, rt, loader, callers, polling>>

\* TarotBot.stop
Stop ==
    /\ req.outcome = "none"
    /\ is_running' = FALSE
    /\ UNCHANGED <<cards, users, readings, req, load_call, draw_call, fmt_call, rt, loader, callers, polling>>

\* handle_start: /start and /help
HandleStart(user_id) ==
    /\ is_running
    /\ req.outcome = "none"
    /\ users' = add_user(users, user_id)
    /\ UNCHANGED <<cards, is_running, readings, req, load_call, draw_call, fmt_call, rt, loader, callers, polling>>

\* handle_card, handle_day, handle_three, handle_love, handle_work,
\* handle_money, handle_health: handle_quick_spread(message, spread_type),
\* run from its first line to its return or to the exception that ends it
HandleQuickSpread(user_id, spread_type) ==
    /\ is_running
    /\ req.outcome = "none"
    /\ Len(readings) < MaxReadings
    /\ \E idx \in Samples(cards, SampleSize(spread_type)),
          rev \in Orientations(SampleSize(spread_type)) :
          LET r == handle_quick_spread(cards, users, readings, user_id, spread_type,
                                       idx, rev)
          IN  /\ req' = r
              /\ users' = r.users
              /\ readings' = r.readings
    /\ UNCHANGED <<cards, is_running, load_call, draw_call, fmt_call, rt, loader, callers, polling>>

\* the handler's frame is gone: the bot waits for the next update
HandlerReturns ==
    /\ req.outcome # "none"
    /\ req' = IdleRequest
    /\ UNCHANGED <<cards, is_running, users, readings, load_call, draw_call, fmt_call, rt, loader, callers, polling>>

Next ==
    \/ Start
    \/ Stop
    \/ \E user_id \in UserIds : HandleStart(user_id)
    \/ \E user_id \in UserIds, spread_type \in RequestSpreadTypes :
          HandleQuickSpread(user_id, spread_type)
    \/ HandlerReturns

Spec == Init /\ [][Next]_vars

(***************************************************************************)
(* TarotDeck(): load_deck on the catalog file, and load_deck called again  *)
(***************************************************************************)
\* the largest number of load_deck calls on one deck
MaxLoads == 2

\* TarotDeck.__init__ before its load_deck(): self.cards = []
InitLoad ==
    /\ cards = <<>>
    /\ load_call \in {[file |-> f, loaded |-> NoFile, loads |-> 0] : f \in CatalogFiles}
    /\ is_running = FALSE
    /\ users = NoUsers
    /\ readings = <<>>
    /\ req = IdleRequest
    /\ draw_call = IdleDraw
    /\ fmt_call = IdleFormat
    /\ rt = IdlePipeline
    /\ loader = IdleLoader
    /\ callers = NoCallers
    /\ polling = <<>>

\* load_deck()
LoadDeck ==
    /\ load_call.loads < MaxLoads
    /\ cards' = load_deck(cards, load_call.file)
    /\ load_call' = [load_call EXCEPT !.loaded = load_call.file, !.loads = @ + 1]
    /\ UNCHANGED <<is_running, users, readings, req, draw_call, fmt_call, rt, loader, callers, polling>>

\* the catalog file is replaced on disk
FileChanges ==
    /\ load_call.loads < MaxLoads
    /\ \E f \in CatalogFiles \ {load_call.file} :
          load_call' = [load_call EXCEPT !.file = f]
    /\ UNCHANGED <<cards, is_running, users, readings, req, draw_call, fmt_call, rt, loader, callers, polling>>

NextLoad == LoadDeck \/ FileChanges

SpecLoad == InitLoad /\ [][NextLoad]_vars

(***************************************************************************)
(* Direct calls of TarotDeck.draw_cards(n)                                 *)
(***************************************************************************)
DirectDraw(n) ==
    /\ ~draw_call.called
    /\ \E idx \in Samples(cards, n), rev \in Orientations(n) :
          draw_call' = [n |-> n, called |-> TRUE,
                        result |-> draw_cards(cards, n, idx, rev),
                        cards_after |-> cards]
    /\ UNCHANGED <<cards, is_running, users, readings, req, load_call, fmt_call, rt, loader, callers, polling>>

DrawReturns ==
    /\ draw_call.called
    /\ draw_call' = IdleDraw
    /\ UNCHANGED <<cards, is_running, users, readings, req, load_call, fmt_call, rt, loader, callers, polling>>

NextDraw ==
    \/ \E n \in 0..MaxDraw : DirectDraw(n)
    \/ DrawReturns

SpecDraw == Init /\ [][NextDraw]_vars

(***************************************************************************)
(* Direct calls of TarotBot.format_spread_response                         *)
(***************************************************************************)
\* the largest number of position labels of a spread given to the call
MaxPositions == 3
\* the largest number of drawn cards given to the call
MaxFormatCards == 3

LabelPool == <<"Past", "Present", "Future", "Outcome", "Advice">>

FormatTypes == {"daily", "three_cards", "love"}

\* the spread definitions given to the call: each type, with and without the
\* key 'positions', with 0..MaxPositions labels
FormatSpreads(n) ==
    {[SpreadInfo("Spread", type, n, SubSeq(LabelPool, 1, k))
        EXCEPT !.has_positions = has, !.positions = IF has THEN @ ELSE <<>>] :
       type \in FormatTypes, k \in 0..MaxPositions, has \in BOOLEAN}

\* the drawn cards given to the call: the first n cards of the built-in
\* deck, each in either orientation
FormatCards(n) ==
    {[i \in 1..n |-> PyTuple(BasicDeck[i], rev[i])] : rev \in Orientations(n)}

FormatCall ==
    /\ ~fmt_call.called
    /\ \E n \in 0..MaxFormatCards :
          \E spread_info \in FormatSpreads(n), cards_data \in FormatCards(n) :
             fmt_call' = [spread_info |-> spread_info, cards_data |-> cards_data,
                          called |-> TRUE,
                          result |-> format_spread_response(spread_info, cards_data)]
    /\ UNCHANGED <<cards, is_running, users, readings, req, load_call, draw_call, rt, loader, callers, polling>>

FormatReturns ==
    /\ fmt_call.called
    /\ fmt_call' = IdleFormat
    /\ UNCHANGED <<cards, is_running, users, readings, req, load_call, draw_call, rt, loader, callers, polling>>

NextFormat == FormatCall \/ FormatReturns

SpecFormat == Init /\ [][NextFormat]_vars

(***************************************************************************)
(* The serializer pipeline: to_dict, save_reading, get_user_readings       *)
(***************************************************************************)
\* a reading is drawn
PipelineDraw(n) ==
    /\ rt.stage = "idle"
    /\ n <= Len(cards)
    /\ \E idx \in Samples(cards, n), rev \in Orientations(n) :
          rt' = [rt EXCEPT !.stage = "drawn",
                           !.cards_data = draw_cards(cards, n, idx, rev).value]
    /\ UNCHANGED <<cards, is_running, users, readings, req, load_call, draw_call, fmt_call, loader, callers, polling>>

\* each drawn card is converted with to_dict
PipelineToDict ==
    /\ rt.stage = "drawn"
    /\ rt' = [rt EXCEPT !.stage = "storable",
                        !.storable = [i \in DOMAIN rt.cards_data |->
                                         to_dict(rt.cards_data[i].card,
                                                 rt.cards_data[i].is_reversed)]]
    /\ UNCHANGED <<cards, is_running, users, readings, req, load_call, draw_call, fmt_call, loader, callers, polling>>

\* save_reading(user_id, spread_type, cards) with the converted cards
PipelineSave(user_id) ==
    /\ rt.stage \in {"storable", "saved"}
    /\ Len(readings) < MaxReadings
    /\ readings' = save_reading(readings, user_id, "three_cards", rt.storable).readings
    /\ rt' = [rt EXCEPT !.stage = "saved"]
    /\ UNCHANGED <<cards, is_running, users, req, load_call, draw_call, fmt_call, loader, callers, polling>>

\* get_user_readings(user_id)
PipelineFetch(user_id) ==
    /\ rt.stage \in {"saved", "fetched"}
    /\ \E order \in SelectOrders(readings, user_id, DefaultLimit) :
          rt' = [rt EXCEPT !.stage = "fetched",
                           !.fetched = get_user_readings(readings, order),
                           !.fetched_for = user_id]
    /\ UNCHANGED <<cards, is_running, users, readings, req, load_call, draw_call, fmt_call, loader, callers, polling>>

NextPipeline ==
    \/ \E n \in 0..MaxDraw : PipelineDraw(n)
    \/ PipelineToDict
    \/ \E user_id \in UserIds : PipelineSave(user_id)
    \/ \E user_id \in UserIds : PipelineFetch(user_id)

SpecPipeline == Init /\ [][NextPipeline]_vars

(***************************************************************************)
(* load_deck called again on the live deck, line by line, while another    *)
(* thread draws                                                            *)
(***************************************************************************)
\* the largest n of a draw_cards(n) call made while the deck is reloaded
MaxReloadDraw == 1

\* lines 91-96: the file is looked for, opened and parsed; a file that is
\* missing or is not JSON sends the call to _create_basic_deck
ReloadBegins ==
    /\ loader.pc = "idle"
    /\ loader.reloads = 0
    /\ \E file \in CatalogFiles :
          loader' = [loader EXCEPT
                        !.pc = IF file.exists /\ file.json_ok THEN "loop" ELSE "fallback",
                        !.file = file, !.cards_data = file.records, !.i = 1,
                        !.old = cards, !.reloads = 1]
    /\ UNCHANGED <<cards, is_running, users, readings, req, load_call, draw_call,
                   fmt_call, rt, callers, polling>>

\* lines 98-100, one pass of the for loop: the record is parsed and the card
\* appended to self.cards, or the exception leaves the loop
ReloadAppends ==
    /\ loader.pc = "loop"
    /\ loader.i <= Len(loader.cards_data)
    /\ LET c == ParseRecord(loader.cards_data[loader.i])
       IN  IF IsException(c)
           THEN /\ loader' = [loader EXCEPT !.pc = "fallback"]
                /\ UNCHANGED cards
           ELSE /\ cards' = Append(cards, c.value)
                /\ loader' = [loader EXCEPT !.i = @ + 1]
    /\ UNCHANGED <<is_running, users, readings, req, load_call, draw_call, fmt_call,
                   rt, callers, polling>>

\* lines 102-103: the loop has run to its end and load_deck returns
ReloadEnds ==
    /\ loader.pc = "loop"
    /\ loader.i > Len(loader.cards_data)
    /\ loader' = [loader EXCEPT !.pc = "done"]
    /\ UNCHANGED <<cards, is_running, users, readings, req, load_call, draw_call,
                   fmt_call, rt, callers, polling>>

\* lines 104-109: the exception is caught and _create_basic_deck called
ReloadFallsBack ==
    /\ loader.pc = "fallback"
    /\ cards' = create_basic_deck(cards)
    /\ loader' = [loader EXCEPT !.pc = "done"]
    /\ UNCHANGED <<is_running, users, readings, req, load_call, draw_call, fmt_call,
                   rt, callers, polling>>

NextReload ==
    \/ ReloadBegins
    \/ ReloadAppends
    \/ ReloadEnds
    \/ ReloadFallsBack
    \/ \E n \in 0..MaxReloadDraw : DirectDraw(n)
    \/ DrawReturns

SpecReload == Init /\ [][NextReload]_vars

\* the line-by-line call leaves the deck load_deck gives in one step
ReloadIsLoadDeck ==
    loader.pc = "done" => cards = load_deck(loader.old, loader.file)

(***************************************************************************)
(* The storage under /start and readings: add_user, and save_reading       *)
(* followed by update_user_activity as handle_quick_spread calls them,     *)
(* with the cards in the form save_reading declares (a list of dicts)      *)
(***************************************************************************)
\* the cards of a reading of n cards as a list of dicts
StorableCards(self_cards, n) == [i \in 1..n |-> to_dict(self_cards[i], FALSE)]

\* db.add_user(message.from_user), as handle_start calls it
StorageAddUser(user_id) ==
    /\ users' = add_user(users, user_id)
    /\ UNCHANGED <<cards, is_running, readings, req, load_call, draw_call, fmt_call,
                   rt, loader, callers, polling>>

\* db.save_reading(user.id, spread_type, cards) and then
\* db.update_user_activity(user.id)
StorageReading(user_id, spread_type) ==
    /\ Len(readings) < MaxReadings
    /\ SampleSize(spread_type) <= Len(cards)
    /\ LET s == save_reading(readings, user_id, spread_type,
                             StorableCards(cards, SampleSize(spread_type)))
       IN  /\ ~IsException(s)
           /\ readings' = s.readings
           /\ users' = update_user_activity(users, user_id)
    /\ UNCHANGED <<cards, is_running, req, load_call, draw_call, fmt_call, rt,
                   loader, callers, polling>>

NextStorage ==
    \/ \E user_id \in UserIds : StorageAddUser(user_id)
    \/ \E user_id \in UserIds, spread_type \in HandlerSpreadTypes :
          StorageReading(user_id, spread_type)

SpecStorage == Init /\ [][NextStorage]_vars

(***************************************************************************)
(* tarot_bot.py: start, stop and _run_polling, line by line, with the      *)
(* callers and the polling threads interleaved                             *)
(***************************************************************************)
\* the largest number of polling threads spawned in a run
MaxThreads == 2

\* a thread calls start() or stop()
Calls(c, op) ==
    /\ callers[c].pc = "idle"
    /\ callers' = [callers EXCEPT ![c] = [IdleCaller EXCEPT !.op = op, !.pc = "check"]]
    /\ UNCHANGED <<cards, is_running, users, readings, req, load_call, draw_call,
                   fmt_call, rt, loader, polling>>

\* start, lines 272-274: if self.is_running: return False
StartChecks(c) ==
    /\ callers[c].op = "start" /\ callers[c].pc = "check"
    /\ callers' = [callers EXCEPT ![c] =
                      IF is_running
                      THEN [@ EXCEPT !.saw_running = TRUE, !.result = "False",
                                     !.pc = "returned"]
                      ELSE [@ EXCEPT !.pc = "set"]]
    /\ UNCHANGED <<cards, is_running, users, readings, req, load_call, draw_call,
                   fmt_call, rt, loader, polling>>

\* start, line 276: self.is_running = True
StartSets(c) ==
    /\ callers[c].op = "start" /\ callers[c].pc = "set"
    /\ is_running' = TRUE
    /\ callers' = [callers EXCEPT ![c].pc = "get_me"]
    /\ UNCHANGED <<cards, users, readings, req, load_call, draw_call, fmt_call, rt,
                   loader, polling>>

\* start, lines 280-281 and 290-293: get_me() returns, or it raises and the
\* handler sets is_running = False and returns False
StartGetsMe(c) ==
    /\ callers[c].op = "start" /\ callers[c].pc = "get_me"
    /\ \E get_me_ok \in BOOLEAN :
          IF get_me_ok
          THEN /\ callers' = [callers EXCEPT ![c].pc = "spawn"]
               /\ UNCHANGED is_running
          ELSE /\ is_running' = FALSE
               /\ callers' = [callers EXCEPT ![c].result = "False",
                                             ![c].pc = "returned"]
    /\ UNCHANGED <<cards, users, readings, req, load_call, draw_call, fmt_call, rt,
                   loader, polling>>

\* start, lines 284-288: the polling thread is created and started, and
\* start returns True
StartSpawns(c) ==
    /\ callers[c].op = "start" /\ callers[c].pc = "spawn"
    /\ Len(polling) < MaxThreads
    /\ polling' = Append(polling, "check")
    /\ callers' = [callers EXCEPT ![c].spawned = TRUE, ![c].result = "True",
                                  ![c].pc = "returned"]
    /\ UNCHANGED <<cards, is_running, users, readings, req, load_call, draw_call,
                   fmt_call, rt, loader>>

\* stop, lines 316-318: if not self.is_running: return
StopChecks(c) ==
    /\ callers[c].op = "stop" /\ callers[c].pc = "check"
    /\ callers' = [callers EXCEPT ![c].pc = IF is_running THEN "set" ELSE "returned"]
    /\ UNCHANGED <<cards, is_running, users, readings, req, load_call, draw_call,
                   fmt_call, rt, loader, polling>>

\* stop, lines 320-325: self.is_running = False and bot.stop_polling(),
\* which waits for no thread
StopSets(c) ==
    /\ callers[c].op = "stop" /\ callers[c].pc = "set"
    /\ is_running' = FALSE
    /\ callers' = [callers EXCEPT ![c].pc = "returned"]
    /\ UNCHANGED <<cards, users, readings, req, load_call, draw_call, fmt_call, rt,
                   loader, polling>>

\* the caller is back from start() or stop()
CallerReturns(c) ==
    /\ callers[c].pc = "returned"
    /\ callers' = [callers EXCEPT ![c] = IdleCaller]
    /\ UNCHANGED <<cards, is_running, users, readings, req, load_call, draw_call,
                   fmt_call, rt, loader, polling>>

\* _run_polling, line 298: while self.is_running
PollingChecks(t) ==
    /\ polling[t] = "check"
    /\ polling' = [polling EXCEPT ![t] = IF is_running THEN "polling" ELSE "finally"]
    /\ UNCHANGED <<cards, is_running, users, readings, req, load_call, draw_call,
                   fmt_call, rt, loader, callers>>

\* _run_polling, lines 300-304: bot.polling() returns
PollingReturns(t) ==
    /\ polling[t] = "polling"
    /\ polling' = [polling EXCEPT ![t] = "check"]
    /\ UNCHANGED <<cards, is_running, users, readings, req, load_call, draw_call,
                   fmt_call, rt, loader, callers>>

\* _run_polling, lines 305-308: bot.polling() raises; time.sleep(5) begins
PollingRaises(t) ==
    /\ polling[t] = "polling"
    /\ polling' = [polling EXCEPT ![t] = "sleep"]
    /\ UNCHANGED <<cards, is_running, users, readings, req, load_call, draw_call,
                   fmt_call, rt, loader, callers>>

\* _run_polling, line 308: time.sleep(5) is over
PollingWakes(t) ==
    /\ polling[t] = "sleep"
    /\ polling' = [polling EXCEPT ![t] = "check"]
    /\ UNCHANGED <<cards, is_running, users, readings, req, load_call, draw_call,
                   fmt_call, rt, loader, callers>>

\* _run_polling, lines 311-312: finally: self.is_running = False, and the
\* thread ends
PollingExits(t) ==
    /\ polling[t] = "finally"
    /\ is_running' = FALSE
    /\ polling' = [polling EXCEPT ![t] = "exited"]
    /\ UNCHANGED <<cards, users, readings, req, load_call, draw_call, fmt_call, rt,
                   loader, callers>>

NextThreads ==
    \/ \E c \in CallerIds, op \in {"start", "stop"} : Calls(c, op)
    \/ \E c \in CallerIds : StartChecks(c)
    \/ \E c \in CallerIds : StartSets(c)
    \/ \E c \in CallerIds : StartGetsMe(c)
    \/ \E c \in CallerIds : StartSpawns(c)
    \/ \E c \in CallerIds : StopChecks(c)
    \/ \E c \in CallerIds : StopSets(c)
    \/ \E c \in CallerIds : CallerReturns(c)
    \/ \E t \in DOMAIN polling : PollingChecks(t)
    \/ \E t \in DOMAIN polling : PollingReturns(t)
    \/ \E t \in DOMAIN polling : PollingRaises(t)
    \/ \E t \in DOMAIN polling : PollingWakes(t)
    \/ \E t \in DOMAIN polling : PollingExits(t)

SpecThreads == Init /\ [][NextThreads]_vars

(***************************************************************************)
(* The claims                                                              *)
(***************************************************************************)
Registered(spread_type) == get_spread_info(spread_type).py # "None"

Handled == req.outcome # "none"

Called(name) == \E i \in DOMAIN req.calls : req.calls[i] = name

DistinctNames(cards_data) ==
    \A i, j \in DOMAIN cards_data :
        i # j => cards_data[i].card.name # cards_data[j].card.name

TablesUntouched == users = req.users_before /\ readings = req.readings_before

\* C1: for every registered spread, the cards drawn for a reading by
\* handle_quick_spread are as many as the spread's registered cards count,
\* and no two of them have the same card name.
C1_ReadingHasSpreadCountOfDistinctCards ==
    (Handled /\ req.drawn /\ Registered(req.spread_type)) =>
        /\ Len(req.cards_data) = get_spread_info(req.spread_type).cards
        /\ DistinctNames(req.cards_data)

C1_Witness ==
    /\ Handled /\ req.drawn
    /\ req.spread_type = "three_cards"
    /\ Len(req.cards_data) = 3
    /\ Len(cards) > 3

\* C2: save_reading and update_user_activity are called only after the
\* lookup has found the spread and the draw has given its cards; when the
\* lookup or the draw fails, no readings row is written and no user row
\* changes.
C2_StorageOnlyAfterLookupAndDraw ==
    Handled =>
        /\ \A i \in DOMAIN req.calls :
              req.calls[i] \in {"save_reading", "update_user_activity"} =>
                 /\ req.spread_info.py # "None"
                 /\ req.drawn
                 /\ \E j \in 1..(i - 1) : req.calls[j] = "get_spread_info"
                 /\ \E j \in 1..(i - 1) : req.calls[j] = "draw_cards"
        /\ ~req.drawn => TablesUntouched

C2_Witness ==
    /\ Handled
    /\ req.outcome = "InsufficientCardsError"
    /\ users[req.user_id].py = "row"
    /\ Len(cards) > 0

\* C3: for a spread identifier that is not registered the lookup gives None
\* without raising, and the handler ends by sending "spread not found": the
\* deck is not asked to draw, nothing is saved and no user row changes.
C3_UnknownSpreadIsNotFound ==
    (Handled /\ ~Registered(req.spread_type)) =>
        /\ req.spread_info.py = "None"
        /\ req.outcome = "spread_not_found"
        /\ req.sent = <<NotFoundMessage>>
        /\ ~Called("draw_cards")
        /\ ~Called("save_reading")
        /\ ~Called("update_user_activity")
        /\ ~req.drawn
        /\ TablesUntouched

C3_Witness ==
    /\ Handled
    /\ req.spread_type = "nonexistent_spread_id"
    /\ req.outcome = "spread_not_found"
    /\ users[req.user_id].py = "row"

\* C4: a draw of more cards than the deck holds fails with
\* InsufficientCardsError and gives no cards, not the cards the deck has; the
\* request fails: nothing is sent, nothing is saved, no user row changes.
C4_OversizedDrawFailsWhole ==
    (/\ Handled
     /\ Registered(req.spread_type)
     /\ get_spread_info(req.spread_type).cards > Len(cards)) =>
        /\ req.outcome = "InsufficientCardsError"
        /\ ~req.drawn
        /\ req.cards_data = <<>>
        /\ req.sent = <<>>
        /\ ~Called("save_reading")
        /\ ~Called("update_user_activity")
        /\ TablesUntouched

C4_Witness ==
    /\ Handled
    /\ req.outcome = "InsufficientCardsError"
    /\ req.spread_type = "three_cards"
    /\ Len(cards) = 2

\* C5: for every n from 0 to the number of cards of the deck, draw_cards(n)
\* returns n cards of pairwise different names, and leaves the deck as it
\* is; draw_cards(0) returns the empty list and is no error.
C5_DrawGivesDistinctCards ==
    (draw_call.called /\ draw_call.n <= Len(cards)) =>
        /\ ~IsException(draw_call.result)
        /\ Len(draw_call.result.value) = draw_call.n
        /\ DistinctNames(draw_call.result.value)
        /\ \A i \in DOMAIN draw_call.result.value :
              draw_call.result.value[i].card \in Range(cards)
        /\ draw_call.cards_after = cards

C5_Witness ==
    /\ draw_call.called
    /\ draw_call.n = Len(cards)
    /\ draw_call.n >= 2
    /\ ~IsException(draw_call.result)

\* the labels the spread is configured with
ConfiguredPositions(spread_info) ==
    IF spread_info.has_positions THEN spread_info.positions ELSE <<>>

\* C6: for every spread type and every list of drawn cards, the response
\* pairs the i-th drawn card with the i-th configured position label, and
\* with "Card i" beyond the last label: no drawn card is dropped.
C6_EveryCardPairedWithItsLabel ==
    (fmt_call.called /\ ~IsException(fmt_call.result)) =>
        LET entries   == fmt_call.result.value.entries
            positions == ConfiguredPositions(fmt_call.spread_info)
        IN  /\ Len(entries) = Len(fmt_call.cards_data)
            /\ \A i \in DOMAIN entries :
                  /\ entries[i].name = fmt_call.cards_data[i].card.name
                  /\ entries[i].is_reversed = fmt_call.cards_data[i].is_reversed
                  /\ entries[i].labelled
                  /\ entries[i].i = i
                  /\ entries[i].position =
                        (IF i <= Len(positions) THEN positions[i] ELSE CardLabel(i))

\* the keys of a dict
DictKeys(d) == {d.items[i][1] : i \in DOMAIN d.items}

\* d[key]
DictGet(d, key) == d.items[CHOOSE i \in DOMAIN d.items : d.items[i][1] = key][2]

\* C7: what the handler hands save_reading is the storable form: a list
\* with, for each drawn card, its name, its card type and a position that is
\* "upright" or "reversed", and without the card's meaning text.
C7_SavedRecordIsStorableForm ==
    (Handled /\ Called("save_reading")) =>
        \A i \in DOMAIN req.save_arg :
            /\ req.save_arg[i].py = "dict"
            /\ DictKeys(req.save_arg[i]) = {"name", "card_type", "position"}
            /\ DictGet(req.save_arg[i], "position") \in {"upright", "reversed"}

\* the (name, card_type, position) tuples of a reading
ReadingTuples(cards_data) ==
    [i \in DOMAIN cards_data |->
        <<cards_data[i].card.name, cards_data[i].card.card_type,
          IF cards_data[i].is_reversed THEN "reversed" ELSE "upright">>]

\* the stored cards with each name looked up in the catalog
ResolveStored(stored, catalog) ==
    [i \in DOMAIN stored |->
        LET name == DictGet(stored[i], "name")
            card == CHOOSE c \in Range(catalog) : c.name = name
        IN  <<card.name, card.card_type, DictGet(stored[i], "position")>>]

\* C8: a reading converted with to_dict, saved with save_reading, read back
\* with get_user_readings and resolved by card name against the same
\* catalog gives the reading's (name, card_type, position) tuples again, in
\* their order.
C8_RoundTripGivesTheReading ==
    rt.stage = "fetched" =>
        /\ Len(rt.fetched) = Min(DefaultLimit, Cardinality(RowsOf(readings, rt.fetched_for)))
        /\ \A k \in DOMAIN rt.fetched :
              /\ rt.fetched[k].user_id = rt.fetched_for
              /\ \A i \in DOMAIN rt.fetched[k].cards :
                    DictGet(rt.fetched[k].cards[i], "name") \in CardNames(cards)
              /\ ResolveStored(rt.fetched[k].cards, cards) = ReadingTuples(rt.cards_data)

C8_Witness ==
    /\ rt.stage = "fetched"
    /\ Len(rt.fetched) = 2
    /\ Len(rt.cards_data) = 3
    /\ rt.cards_data[1].is_reversed
    /\ ~rt.cards_data[2].is_reversed

\* whether load_deck fails on the file: it is no JSON, or a record of it is
\* malformed
Malformed(file) ==
    /\ file.exists
    /\ \/ ~file.json_ok
       \/ \E i \in DOMAIN file.records : IsException(ParseRecord(file.records[i]))

\* C9: after load_deck on a catalog file that exists and is malformed at
\* any record, the deck is the built-in deck and nothing else: no card of
\* the file stays in it.
C9_MalformedFileGivesBuiltInDeck ==
    (load_call.loads > 0 /\ Malformed(load_call.loaded)) => cards = BasicDeck

C9_Witness ==
    /\ load_call.loads = 1
    /\ load_call.loaded = BadFile(2, 2, "unknown_card_type")
    /\ cards = BasicDeck

\* C10: the bot never serves requests with a registry that has a spread of
\* more cards than the loaded catalog has different cards: such a registry
\* makes the initialization fail.
C10_ServingRegistryFitsCatalog ==
    is_running =>
        \A spread_type \in HandlerSpreadTypes :
            get_spread_info(spread_type).cards <= Cardinality(CardNames(cards))

\* the catalog the reload was given: the deck a fresh load of the file gives
NewCatalog == TarotDeck(loader.file)

\* C11: a reload replaces the deck's whole contents atomically: once
\* load_deck has returned the deck is exactly the newly loaded catalog, with
\* no two cards of the same name, and a draw made while or after the deck is
\* reloaded has seen the whole old card list or the whole new one, never a
\* list in between.
C11_ReloadSwapsWholeDeck ==
    /\ loader.pc = "done" =>
          /\ cards = NewCatalog
          /\ Cardinality(CardNames(cards)) = Len(cards)
    /\ (loader.pc # "idle" /\ draw_call.called) =>
          draw_call.cards_after \in {loader.old, NewCatalog}

\* the places of a call in the handler's sequence of calls
CallsOf(name) == {i \in DOMAIN req.calls : req.calls[i] = name}

\* C12: an invocation of handle_quick_spread with a registered spread whose
\* draw has given its cards runs to its end: it adds exactly one readings row
\* for its user and spread, then updates the user's activity exactly once,
\* then sends exactly one message, the reading, which is always sent.
C12_ReadingRunsToCompletion ==
    (Handled /\ Registered(req.spread_type) /\ req.drawn) =>
        /\ req.outcome = "ok"
        /\ Len(readings) = Len(req.readings_before) + 1
        /\ SubSeq(readings, 1, Len(req.readings_before)) = req.readings_before
        /\ readings[Len(readings)].user_id = req.user_id
        /\ readings[Len(readings)].spread_type = req.spread_type
        /\ Cardinality(CallsOf("save_reading")) = 1
        /\ Cardinality(CallsOf("update_user_activity")) = 1
        /\ Cardinality(CallsOf("send_message")) = 1
        /\ \A i \in CallsOf("save_reading"), j \in CallsOf("update_user_activity"),
              k \in CallsOf("send_message") : i < j /\ j < k
        /\ Len(req.sent) = 1
        /\ req.sent[1].text = "reading"

\* the number of readings rows of a user
ReadingsOf(user_id) == Cardinality(RowsOf(readings, user_id))

\* C13: after any /start and reading commands, every user who has a reading
\* has a users row, and its readings_count is the number of readings rows of
\* that user, also when the user never sent /start.
C13_ReadingsCountIsRowCount ==
    \A user_id \in UserIds :
        ReadingsOf(user_id) > 0 =>
            /\ users[user_id].py = "row"
            /\ users[user_id].readings_count = ReadingsOf(user_id)

\* the cards of the readings rows of a user, from row i on
RECURSIVE CardsInReadings(_, _)
CardsInReadings(user_id, i) ==
    IF i > Len(readings) THEN 0
    ELSE (IF readings[i].user_id = user_id THEN Len(json_loads(readings[i].cards)) ELSE 0)
            + CardsInReadings(user_id, i + 1)

\* C14: a user's cards_drawn is the number of cards drawn over all the
\* readings of that user (3 more for a three_cards reading), not the number
\* of readings; stated for the users all of whose readings were counted.
C14_CardsDrawnIsTotalOfCards ==
    \A user_id \in UserIds :
        (users[user_id].py = "row"
           /\ users[user_id].readings_count = ReadingsOf(user_id)) =>
            users[user_id].cards_drawn = CardsInReadings(user_id, 1)

\* the polling threads that have been started and have not ended
LivePolling == {t \in DOMAIN polling : polling[t] # "exited"}

\* C15: under every interleaving of start() and stop() calls at most one
\* polling thread is live: a start() that finds is_running true returns False
\* and spawns no thread, and a start() after a stop() never runs beside an
\* earlier _run_polling loop that has not ended.
C15_AtMostOnePollingThread ==
    /\ Cardinality(LivePolling) <= 1
    /\ \A c \in CallerIds :
          (callers[c].op = "start" /\ callers[c].saw_running) =>
              /\ callers[c].result = "False"
              /\ ~callers[c].spawned

====
